---- MODULE Spec2Model ----
(***************************************************************************)
(* Model of the crypto price overlay (zias7039/C-tracker).                 *)
(*                                                                         *)
(*  - src/price_fetcher.py : PriceFetcherThread (run, fetch and the four   *)
(*    source functions, to_upbit_symbol)                                   *)
(*  - src/overlay.py       : Overlay.update_price / restart_timer /        *)
(*    update_price_slot / on_settings_applied, the Qt event queue between  *)
(*    the worker thread and the GUI thread                                 *)
(*                                                                         *)
(* The specifications share the variables:                                 *)
(*   Spec        the overlay and its worker threads (GUI thread handlers,  *)
(*               worker steps, queued signals)                             *)
(*   FetchSpec   one aggregation pass, PriceFetcherThread.fetch, over      *)
(*               bounded source outcomes                                   *)
(*   MorningSpec the reference-day selection of fetch_morning_price with   *)
(*               its two separate clock reads                              *)
(*   PassSpec    the network calls of one fetch() in the order they are    *)
(*               made, under a wall clock that advances                    *)
(*                                                                         *)
(* Python floats are modelled by exact numbers: prices and the rate are    *)
(* integers, the two percentages are reduced fractions <<num, den>>.       *)
(* Rounding is not modelled.  None is <<>>, a present value v is <<v>>.    *)
(* A str is the tuple of its characters.  A dict is a function over the    *)
(* set of its keys.  Wall-clock time is counted in minutes.                *)
(***************************************************************************)
EXTENDS Integers, Sequences, FiniteSets, TLC

(***************************************************************************)
(* Bounds of the model.                                                    *)
(***************************************************************************)
MaxSymbols == 2
MaxPasses == 2
MaxTicks == 2

(***************************************************************************)
(* Optional values, fractions, strings.                                    *)
(***************************************************************************)
None == <<>>
Some(v) == <<v>>

Range(s) == {s[i] : i \in 1..Len(s)}

Abs(n) == IF n < 0 THEN 0 - n ELSE n

RECURSIVE Gcd(_, _)
Gcd(a, b) == IF b = 0 THEN a ELSE Gcd(b, a % b)

\* The exact value n/d (d # 0) in lowest terms with a positive denominator.
Frac(n, d) ==
    LET g == Gcd(Abs(n), Abs(d))
        s == IF d < 0 THEN 0 - 1 ELSE 1
    IN  <<(s * n) \div g, (s * d) \div g>>

USDT == <<"U", "S", "D", "T">>
KRW == <<"K", "R", "W", "-">>

BTCUSDT == <<"B", "T", "C">> \o USDT
ETHUSDT == <<"E", "T", "H">> \o USDT
BTCUSD == <<"B", "T", "C", "U", "S", "D">>
USDTBTCUSDT == USDT \o BTCUSDT

\* str.endswith
endswith(s, suffix) ==
    /\ Len(s) >= Len(suffix)
    /\ SubSeq(s, Len(s) - Len(suffix) + 1, Len(s)) = suffix

\* str.replace(old, ""): every non-overlapping occurrence, left to right.
RECURSIVE replace(_, _)
replace(s, old) ==
    IF Len(s) < Len(old) THEN s
    ELSE IF SubSeq(s, 1, Len(old)) = old
         THEN replace(SubSeq(s, Len(old) + 1, Len(s)), old)
         ELSE <<Head(s)>> \o replace(Tail(s), old)

\* PriceFetcherThread.to_upbit_symbol
to_upbit_symbol(binance_symbol) ==
    IF endswith(binance_symbol, USDT)
    THEN Some(KRW \o replace(binance_symbol, USDT))
    ELSE None

(***************************************************************************)
(* PriceFetcherThread: the four sources.  Each takes the outcome of its    *)
(* HTTP request: None when the request or its decoding raises, otherwise   *)
(* the decoded value.                                                      *)
(***************************************************************************)

\* A slip on line 81: a fallback rate of 1.0.
fetch_usd_krw_rate_fallback_one(resp) == IF resp = None THEN 1 ELSE resp[1]

\* fetch_usd_krw_rate: float(r.json()["rates"]["KRW"]), 0.0 on any exception.
fetch_usd_krw_rate(resp) == IF resp = None THEN 0 ELSE resp[1]

\* A slip on line 89: `return 0.0`.
fetch_binance_price_zero(resp) == IF resp = None THEN Some(0) ELSE Some(resp[1])

\* fetch_binance_price: float(r.json()["price"]), None on any exception.
fetch_binance_price(resp) == IF resp = None THEN None ELSE Some(resp[1])

\* A kline as the API returns it, cut to <<open time, open, high, low, close>>.
Candle(open) == <<0, open, open + 7, open - 7, open + 3>>

\* A slip on line 117: the close of the candle, data[0][4].
morning_price_of_close(resp) ==
    IF resp = None THEN None
    ELSE LET data == resp[1]
         IN  IF Len(data) > 0 THEN Some(data[1][5]) ELSE None

\* fetch_morning_price, lines 115-123: data[0][1] of a non-empty candle list
\* (Python index 1 is the second field), None otherwise.
morning_price_of(resp) ==
    IF resp = None THEN None
    ELSE LET data == resp[1]
         IN  IF Len(data) > 0 THEN Some(data[1][2]) ELSE None

(***************************************************************************)
(* PriceFetcherThread.fetch                                                *)
(***************************************************************************)
EmptyDict == [k \in {} |-> None]

\* d[key] = value on a dict
DictSet(d, key, value) ==
    [k \in (DOMAIN d) \cup {key} |-> IF k = key THEN value ELSE d[k]]

\* dict.get(key): None for a missing key
DictGet(d, key) == IF key \in DOMAIN d THEN d[key] ELSE None

\* lines 34-39: binance_map[symbol] = ..., morning_map[symbol] = ...; a symbol
\* listed twice is fetched twice and keeps the later value.
RECURSIVE LoopMap(_, _, _)
LoopMap(symbols, values, d) ==
    IF symbols = <<>> THEN d
    ELSE LoopMap(Tail(symbols), Tail(values), DictSet(d, Head(symbols), Head(values)))

\* lines 37, 40-41: upbit_symbols[symbol] = up_sym for the mappable symbols
upbit_symbols(symbols) ==
    [s \in {x \in Range(symbols) : to_upbit_symbol(x) # None} |-> to_upbit_symbol(s)[1]]

\* line 43: list(upbit_symbols.values()), in the insertion order of the keys
RECURSIVE DictValues(_, _)
DictValues(symbols, seen) ==
    IF symbols = <<>> THEN <<>>
    ELSE LET s == Head(symbols)
             u == to_upbit_symbol(s)
         IN  IF s \in seen \/ u = None
             THEN DictValues(Tail(symbols), seen)
             ELSE <<u[1]>> \o DictValues(Tail(symbols), seen \cup {s})

upbit_markets(symbols) == DictValues(symbols, {})

\* lines 49-50: the loop over r.json(); an item whose handling raises ends the
\* loop and keeps what was stored before it.
RECURSIVE FillUpbit(_, _)
FillUpbit(items, d) ==
    IF items = <<>> THEN d
    ELSE IF Head(items).trade_price = None THEN d
    ELSE FillUpbit(Tail(items), DictSet(d, Head(items).market, Head(items).trade_price[1]))

\* lines 43-52
upbit_price_map(symbols, resp) ==
    IF upbit_markets(symbols) = <<>> THEN EmptyDict
    ELSE IF resp = None THEN EmptyDict
    ELSE FillUpbit(resp[1], EmptyDict)

\* A slip on line 60: an absent primary price taken as 0 (binance_price or 0).
morning_diff_absent_as_zero(binance_price, morning_price) ==
    IF morning_price # None /\ morning_price[1] # 0 /\ morning_price[1] > 0
    THEN Some(Frac(((IF binance_price = None THEN 0 ELSE binance_price[1])
                    - morning_price[1]) * 100, morning_price[1]))
    ELSE None

\* lines 60-62
morning_diff_of(binance_price, morning_price) ==
    IF binance_price # None /\ morning_price # None /\ morning_price[1] # 0
       /\ morning_price[1] > 0
    THEN Some(Frac((binance_price[1] - morning_price[1]) * 100, morning_price[1]))
    ELSE None

\* line 64
PremiumGuard(binance_price, usd_to_krw) ==
    binance_price # None /\ usd_to_krw > 0

\* lines 64-66: the premium branch is entered
PremiumEntered(binance_price, usd_to_krw, up_sym, price_map) ==
    /\ PremiumGuard(binance_price, usd_to_krw)
    /\ up_sym # None
    /\ up_sym[1] \in DOMAIN price_map

\* lines 68-69 divide by binance_price * usd_to_krw: ZeroDivisionError when 0
PremiumRaises(binance_price, usd_to_krw, up_sym, price_map) ==
    /\ PremiumEntered(binance_price, usd_to_krw, up_sym, price_map)
    /\ binance_price[1] * usd_to_krw = 0

\* lines 64-69
kimchi_premium_of(binance_price, usd_to_krw, up_sym, price_map) ==
    IF PremiumEntered(binance_price, usd_to_krw, up_sym, price_map)
    THEN LET up_price == price_map[up_sym[1]]
             local == binance_price[1] * usd_to_krw
         IN  Some(Frac((up_price - local) * 100, local))
    ELSE None

\* lines 54-73: the second loop.  [raised, results]: raised when an iteration
\* raises, which leaves fetch() before `return results`.
RECURSIVE ResultLoop(_, _, _, _, _, _, _)
ResultLoop(todo, bmap, mmap, usyms, pmap, usd_to_krw, results) ==
    IF todo = <<>> THEN [raised |-> FALSE, results |-> results]
    ELSE LET symbol == Head(todo)
             binance_price == DictGet(bmap, symbol)
             morning_price == DictGet(mmap, symbol)
             up_sym == IF symbol \in DOMAIN usyms THEN Some(usyms[symbol]) ELSE None
         IN  IF PremiumRaises(binance_price, usd_to_krw, up_sym, pmap)
             THEN [raised |-> TRUE, results |-> EmptyDict]
             ELSE ResultLoop(Tail(todo), bmap, mmap, usyms, pmap, usd_to_krw,
                      DictSet(results, symbol,
                          <<binance_price,
                            morning_diff_of(binance_price, morning_price),
                            kimchi_premium_of(binance_price, usd_to_krw, up_sym, pmap)>>))

\* fetch(), lines 25-73, on the outcomes of its requests:
\*   rate      outcome of the FX request
\*   prices    per list position, outcome of the ticker request
\*   klines    per list position, outcome of the kline request
\*   upbit     outcome of the batched Upbit request
fetch(symbols, rate, prices, klines, upbit) ==
    LET usd_to_krw == fetch_usd_krw_rate(rate)
        n == Len(symbols)
        bmap == LoopMap(symbols, [i \in 1..n |-> fetch_binance_price(prices[i])], EmptyDict)
        mmap == LoopMap(symbols, [i \in 1..n |-> morning_price_of(klines[i])], EmptyDict)
        usyms == upbit_symbols(symbols)
        pmap == upbit_price_map(symbols, upbit)
    IN  ResultLoop(symbols, bmap, mmap, usyms, pmap, usd_to_krw, EmptyDict)

(***************************************************************************)
(* State.                                                                  *)
(***************************************************************************)
VARIABLES
    \* FetchSpec: one aggregation pass
    f_symbols,      \* PriceFetcherThread.symbols
    f_env,          \* outcomes of the requests of the pass
    f_pc,           \* "pending" before fetch() has run, "done" after
    f_out           \* what fetch() did: [raised, results]

fetchVars == <<f_symbols, f_env, f_pc, f_out>>

VARIABLES
    \* MorningSpec: one call of fetch_morning_price up to its request
    clock,          \* local wall-clock time, minutes since day 0, 00:00
    ticks,          \* minutes the clock advanced during the call
    m_pc,           \* "start", "today" (line 93 done), "sent" (line 110 reached)
    m_today,        \* today, a day number (line 93)
    m_now,          \* now, minutes (line 94)
    m_request       \* the kline request of lines 110-113

morningVars == <<clock, ticks, m_pc, m_today, m_now, m_request>>

VARIABLES
    \* PassSpec: the network calls of one fetch(), step by step
    p_symbols,      \* PriceFetcherThread.symbols
    p_pc,           \* the call fetch() makes next: "rate", "price", "kline",
                    \* "upbit"; "done" after the last one
    p_i,            \* position in self.symbols (in the batched requests at "upbit")
    p_calls,        \* the requests sent so far, in the order sent
    p_open          \* the requests sent whose response has not arrived

passVars == <<p_symbols, p_pc, p_i, p_calls, p_open>>

VARIABLES
    \* Spec: the overlay (GUI thread) and its worker threads
    symbols,            \* Overlay.symbols
    refresh_interval,   \* Overlay.refresh_interval, seconds
    timerActive,        \* Overlay.timer.isActive()
    timerInterval,      \* interval the timer was last started with, ms
    fetcher,            \* Overlay.fetcher: 0 for None, else the thread object
    price_data,         \* Overlay.price_data: the mapping last delivered
    price_ref,          \* the dict object Overlay.price_data refers to, 0 for {}
    closed,             \* closeEvent has run
    dataPass,           \* the pass price_data came from, 0 for none
    label,              \* what the label shows: [kind, pass]
    slotStack,          \* calls of update_price_slot inside processEvents()
    events,             \* queued signal deliveries posted to the GUI thread
    created,            \* PriceFetcherThread objects created so far
    tstate,             \* per thread object: its QThread state
    t_symbols,          \* per thread object: PriceFetcherThread.symbols
    t_fetch,            \* per thread object: how fetch() ended
    t_signals,          \* per thread object: signals run() has emitted
    heap,               \* per result dict object: what it holds now
    last                \* kind of the last step: a refresh request or other

guiVars == <<symbols, refresh_interval, timerActive, timerInterval, fetcher,
             price_data, price_ref, closed, dataPass, label, slotStack>>
threadVars == <<created, tstate, t_symbols, t_fetch, t_signals, heap>>
ovVars == <<guiVars, events, threadVars, last>>

\* ConfigManager (config_manager.py).  A dict is an object: cfg_heap gives
\* what each dict object holds, config is the object self._config refers to.
VARIABLES
    cfg_heap,           \* per dict object: the items it holds
    config,             \* the dict object self._config refers to
    cfg_file,           \* settings.json: missing, corrupt or a stored dict
    cfg_last,           \* the last call made and, for get, what it returned
    cfg_written         \* keys written by set or update since construction

cfgVars == <<cfg_heap, config, cfg_file, cfg_last, cfg_written>>

vars == <<fetchVars, morningVars, passVars, ovVars, cfgVars>>

(***************************************************************************)
(* Outcomes of the requests of a pass.                                     *)
(***************************************************************************)
FSymbols == {BTCUSDT, ETHUSDT, BTCUSD, USDTBTCUSDT}

SymbolLists(maxlen) == UNION {[1..n -> FSymbols] : n \in 0..maxlen}

RateOutcomes == {None, Some(2), Some(0 - 2)}
PriceOutcomes == {None, Some(0), Some(90), Some(110)}
KlineOutcomes == {None, Some(<<>>), Some(<<Candle(100)>>), Some(<<Candle(0)>>),
                  Some(<<Candle(0 - 100)>>), Some(<<Candle(100), Candle(50)>>)}

\* The trade price Upbit quotes for a market.
UpbitQuote(market) == IF market = KRW \o <<"B", "T", "C">> THEN 198 ELSE 242

\* The item Upbit returns for a market: well formed, or one whose handling raises.
UpbitItem(market, how) ==
    [market |-> market,
     trade_price |-> IF how = "ok" THEN Some(UpbitQuote(market)) ELSE None]

RECURSIVE UpbitItems(_, _, _)
UpbitItems(markets, how, i) ==
    IF i > Len(markets) THEN <<>>
    ELSE (IF how[i] = "skip" THEN <<>> ELSE <<UpbitItem(markets[i], how[i])>>)
         \o UpbitItems(markets, how, i + 1)

\* Outcomes of the batched request for the markets asked: the request raises,
\* or it returns, per market asked, a good item, a bad item or no item.
UpbitOutcomes(markets) ==
    {None} \cup {Some(UpbitItems(markets, how, 1)) :
                    how \in [1..Len(markets) -> {"ok", "bad", "skip"}]}

Envs(syms) ==
    [rate : RateOutcomes,
     prices : [1..Len(syms) -> PriceOutcomes],
     klines : [1..Len(syms) -> KlineOutcomes],
     upbit : UpbitOutcomes(upbit_markets(syms))]

(***************************************************************************)
(* fetch_morning_price, lines 93-113: the reference window.                *)
(***************************************************************************)
MinutesPerDay == 24 * 60
MsPerMinute == 60 * 1000

\* datetime.time(9, 0), line 95
morning_time == 9 * 60

\* date.today() and datetime.now() at a clock value
DateOf(t) == t \div MinutesPerDay
TimeOf(t) == t % MinutesPerDay

\* lines 98-103
target_date(today, now) ==
    IF TimeOf(now) < morning_time THEN today - 1 ELSE today

\* lines 106-108: datetime.combine(target_date, morning_time).timestamp() * 1000
nine_am_ts(date) == (date * MinutesPerDay + morning_time) * MsPerMinute

\* A slip on line 112: the hour added in seconds.
kline_request_hour_in_seconds(today, now) ==
    LET ts == nine_am_ts(target_date(today, now))
    IN  [interval |-> "1h", startTime |-> ts, endTime |-> ts + 3600, limit |-> 1,
         target_date |-> target_date(today, now)]

\* lines 110-113: the parameters of the request; target_date (lines 98-103)
\* is kept with them.
kline_request(today, now) ==
    LET ts == nine_am_ts(target_date(today, now))
    IN  [interval |-> "1h", startTime |-> ts, endTime |-> ts + 3600000, limit |-> 1,
         target_date |-> target_date(today, now)]

NoRequest == [interval |-> "", startTime |-> 0, endTime |-> 0, limit |-> 0, target_date |-> 0]

\* Instants at which a call may start: around midnight and around 09:00.
StartTimes ==
    {d * MinutesPerDay + m : d \in 1..2,
        m \in {0, 1, morning_time - 2, morning_time - 1, morning_time, morning_time + 1,
               MinutesPerDay - 2, MinutesPerDay - 1}}

MorningIdle ==
    /\ clock = 0 /\ ticks = 0 /\ m_pc = "idle" /\ m_today = 0 /\ m_now = 0
    /\ m_request = NoRequest

MorningInit ==
    /\ clock \in StartTimes
    /\ ticks = 0
    /\ m_pc = "start"
    /\ m_today = 0
    /\ m_now = 0
    /\ m_request = NoRequest

\* The wall clock advances between any two steps of the call.
Tick ==
    /\ m_pc \in {"start", "today"}
    /\ ticks < MaxTicks
    /\ clock' = clock + 1
    /\ ticks' = ticks + 1
    /\ UNCHANGED <<m_pc, m_today, m_now, m_request>>

\* line 93: today = datetime.date.today()
ReadToday ==
    /\ m_pc = "start"
    /\ m_today' = DateOf(clock)
    /\ m_pc' = "today"
    /\ UNCHANGED <<clock, ticks, m_now, m_request>>

\* lines 94-113: now = datetime.datetime.now(), then the request
ReadNowAndRequest ==
    /\ m_pc = "today"
    /\ m_now' = clock
    /\ m_request' = kline_request(m_today, clock)
    /\ m_pc' = "sent"
    /\ UNCHANGED <<clock, ticks, m_today>>

MorningNext ==
    \/ (Tick /\ UNCHANGED <<fetchVars, passVars, ovVars, cfgVars>>)
    \/ (ReadToday /\ UNCHANGED <<fetchVars, passVars, ovVars, cfgVars>>)
    \/ (ReadNowAndRequest /\ UNCHANGED <<fetchVars, passVars, ovVars, cfgVars>>)

(***************************************************************************)
(* FetchSpec: PriceFetcherThread.fetch on every bounded input.             *)
(***************************************************************************)
FetchIdle ==
    /\ f_symbols = <<>>
    /\ f_env = [rate |-> None, prices |-> <<>>, klines |-> <<>>, upbit |-> None]
    /\ f_pc = "idle"
    /\ f_out = [raised |-> FALSE, results |-> EmptyDict]

FetchInit ==
    /\ f_symbols \in SymbolLists(MaxSymbols)
    /\ f_env \in Envs(f_symbols)
    /\ f_pc = "pending"
    /\ f_out = [raised |-> FALSE, results |-> EmptyDict]

\* run(), line 19: results = self.fetch()
FetchRun ==
    /\ f_pc = "pending"
    /\ f_pc' = "done"
    /\ f_out' = fetch(f_symbols, f_env.rate, f_env.prices, f_env.klines, f_env.upbit)
    /\ UNCHANGED <<f_symbols, f_env>>

FetchNext == FetchRun /\ UNCHANGED <<morningVars, passVars, ovVars, cfgVars>>

(***************************************************************************)
(* PassSpec: the network calls of one fetch(), lines 25-52, in the order   *)
(* the worker thread makes them.  Every call is a blocking HTTP request:   *)
(* it is sent, and fetch() goes on when its response (or its exception,    *)
(* which every source catches) has arrived.  The wall clock advances       *)
(* while the pass runs; fetch_morning_price reads it for every symbol.     *)
(***************************************************************************)
Call(kind, symbol, startTime, markets) ==
    [call |-> kind, symbol |-> symbol, startTime |-> startTime, markets |-> markets]

\* A slip: the rate fetched inside the loop, once per symbol.
next_pc_rate_in_loop(pc, i, n) ==
    IF pc = "price" THEN <<"kline", i>>
    ELSE IF pc = "rate" THEN (IF i + 1 <= n THEN <<"price", i + 1>> ELSE <<"upbit", 1>>)
    ELSE IF i + 1 <= n THEN <<"rate", i>> ELSE <<"upbit", 1>>

\* Control flow of lines 27-43: where fetch() stands after the call pc made
\* for position i of n symbols (i = 0 for the rate call of line 27).
next_pc(pc, i, n) ==
    IF pc = "price" THEN <<"kline", i>>
    ELSE IF i + 1 <= n THEN <<"price", i + 1>> ELSE <<"upbit", 1>>

\* A slip on lines 45-48: one ticker request per market.
batch_requests_per_market(markets) == [i \in 1..Len(markets) |-> <<markets[i]>>]

\* lines 45-48: the ticker requests sent for the markets collected, one
\* request with all of them joined, none when the list is empty.
batch_requests(markets) == IF markets = <<>> THEN <<>> ELSE <<markets>>

PassIdle ==
    /\ p_symbols = <<>> /\ p_pc = "idle" /\ p_i = 0 /\ p_calls = <<>> /\ p_open = <<>>

\* fetch() is entered.
PassInit ==
    /\ p_symbols \in SymbolLists(MaxSymbols)
    /\ p_pc = "rate"
    /\ p_i = 0
    /\ p_calls = <<>>
    /\ p_open = <<>>
    /\ clock \in StartTimes
    /\ ticks = 0
    /\ m_pc = "idle"
    /\ m_today = 0
    /\ m_now = 0
    /\ m_request = NoRequest

\* Sending a request.
PassSend(c) ==
    /\ p_open = <<>>
    /\ p_calls' = Append(p_calls, c)
    /\ p_open' = <<c>>

\* line 27 -> line 77: requests.get of the exchange rate
PassCallRate ==
    /\ p_pc = "rate"
    /\ PassSend(Call("rate", <<>>, 0, <<>>))
    /\ p_pc' = next_pc("rate", p_i, Len(p_symbols))[1]
    /\ p_i' = next_pc("rate", p_i, Len(p_symbols))[2]
    /\ UNCHANGED <<p_symbols, morningVars>>

\* line 35 -> line 85: the ticker request of the symbol
PassCallPrice ==
    /\ p_pc = "price"
    /\ PassSend(Call("price", p_symbols[p_i], 0, <<>>))
    /\ p_pc' = next_pc("price", p_i, Len(p_symbols))[1]
    /\ p_i' = next_pc("price", p_i, Len(p_symbols))[2]
    /\ UNCHANGED <<p_symbols, morningVars>>

\* line 36 -> lines 94-113: fetch_morning_price reads the time and sends the
\* kline request of the symbol.
PassCallKline ==
    /\ p_pc = "kline"
    /\ ReadNowAndRequest
    /\ PassSend(Call("kline", p_symbols[p_i], m_request'.startTime, <<>>))
    /\ p_pc' = next_pc("kline", p_i, Len(p_symbols))[1]
    /\ p_i' = next_pc("kline", p_i, Len(p_symbols))[2]
    /\ UNCHANGED p_symbols

\* lines 43-48: the batched ticker request
PassCallUpbit ==
    /\ p_pc = "upbit"
    /\ p_i <= Len(batch_requests(upbit_markets(p_symbols)))
    /\ PassSend(Call("upbit", <<>>, 0, batch_requests(upbit_markets(p_symbols))[p_i]))
    /\ p_i' = p_i + 1
    /\ UNCHANGED <<p_symbols, p_pc, morningVars>>

\* lines 54-73: nothing is left to request; the second loop makes no call.
PassCompute ==
    /\ p_pc = "upbit"
    /\ p_open = <<>>
    /\ p_i > Len(batch_requests(upbit_markets(p_symbols)))
    /\ p_pc' = "done"
    /\ UNCHANGED <<p_symbols, p_i, p_calls, p_open, morningVars>>

\* The response of the request sent arrives, or its exception is caught
\* (lines 79, 87, 120, 51).  After the ticker request of a symbol fetch()
\* enters fetch_morning_price (line 36).
PassReturn ==
    /\ p_open # <<>>
    /\ p_open' = Tail(p_open)
    /\ m_pc' = IF Head(p_open).call = "price" THEN "start" ELSE m_pc
    /\ UNCHANGED <<p_symbols, p_pc, p_i, p_calls, clock, ticks, m_today, m_now, m_request>>

PassNext ==
    \/ (PassCallRate /\ UNCHANGED <<fetchVars, ovVars, cfgVars>>)
    \/ (PassCallPrice /\ UNCHANGED <<fetchVars, ovVars, cfgVars>>)
    \/ (ReadToday /\ UNCHANGED <<fetchVars, passVars, ovVars, cfgVars>>)
    \/ (Tick /\ UNCHANGED <<fetchVars, passVars, ovVars, cfgVars>>)
    \/ (PassCallKline /\ UNCHANGED <<fetchVars, ovVars, cfgVars>>)
    \/ (PassCallUpbit /\ UNCHANGED <<fetchVars, ovVars, cfgVars>>)
    \/ (PassCompute /\ UNCHANGED <<fetchVars, ovVars, cfgVars>>)
    \/ (PassReturn /\ UNCHANGED <<fetchVars, ovVars, cfgVars>>)

(***************************************************************************)
(* Spec: the overlay, its worker threads and the queued signals.           *)
(*                                                                         *)
(* The GUI thread runs one handler at a time.  A signal emitted by a       *)
(* worker thread is posted to the GUI thread's event queue and its slot    *)
(* runs when the GUI thread takes it from the queue.  Timer timeouts, key  *)
(* presses and settings changes reach the GUI thread at any time between   *)
(* two handlers, also inside the processEvents() call of                   *)
(* update_price_slot.                                                      *)
(***************************************************************************)
Threads == 1..MaxPasses

OvSymbolLists == {<<BTCUSDT>>, <<ETHUSDT, BTCUSDT>>}
RefreshIntervals == {2, 5}

\* Outcomes of the requests of a pass that the overlay model distinguishes:
\* every primary price 0, with which fetch() raises, or 110, with which it
\* returns; the other requests succeed.
OvEnvs(syms) ==
    {[rate |-> Some(2),
      prices |-> [i \in 1..Len(syms) |-> p],
      klines |-> [i \in 1..Len(syms) |-> Some(<<Candle(100)>>)],
      upbit |-> Some(UpbitItems(upbit_markets(syms),
                                [i \in 1..Len(upbit_markets(syms)) |-> "ok"], 1))] :
        p \in {Some(0), Some(110)}}

NoArg == EmptyDict

\* A slip on line 381: the isRunning() test left out.
IsRunning_unchecked(f) == FALSE

\* A slip on line 381: `if self.fetcher is not None: return`.
IsRunning_any_fetcher(f) == f # 0

\* Line 381: self.fetcher is not None and self.fetcher.isRunning().
\* QThread.isRunning() holds from start() until the thread enters its finish
\* phase, which comes after run() has returned and before finished is emitted.
IsRunning(f) == f # 0 /\ tstate[f] \in {"run", "returned"}

\* A slip on line 26: one dict kept for all passes (a module-level results).
results_obj_shared(p) == 1

\* Line 26, results = {}: every call of fetch() builds its own dict object,
\* which run() emits (line 20) and update_price_slot keeps (line 422).
results_obj(p) == p

\* A slip in run(): the except branch only logs.
run_signal_swallow(out) == IF out.raised THEN {} ELSE {"result_ready"}

\* run(), lines 17-23: the signal the call emits for what fetch() did
run_signal(out) == IF out.raised THEN {"error_occurred"} ELSE {"result_ready"}

OverlayIdle ==
    /\ symbols = <<>> /\ refresh_interval = 0 /\ timerActive = FALSE
    /\ timerInterval = 0 /\ fetcher = 0 /\ price_data = EmptyDict /\ dataPass = 0
    /\ price_ref = 0 /\ closed = FALSE /\ heap = [p \in Threads |-> EmptyDict]
    /\ label = [kind |-> "idle", pass |-> 0] /\ slotStack = <<>> /\ events = <<>>
    /\ created = 0
    /\ tstate = [p \in Threads |-> "none"]
    /\ t_symbols = [p \in Threads |-> <<>>]
    /\ t_fetch = [p \in Threads |-> "pending"]
    /\ t_signals = [p \in Threads |-> {}]
    /\ last = "idle"

\* The overlay after construction: settings loaded, no fetcher yet, the label
\* showing its loading text (line 111).  overlay.py reads self.timer and
\* self.fetcher without showing where they are created; the timer is taken
\* to exist, started or not yet started, and the fetcher to be None.
OverlayInit ==
    /\ symbols \in OvSymbolLists
    /\ refresh_interval \in RefreshIntervals
    /\ timerActive \in BOOLEAN
    /\ timerInterval = refresh_interval * 1000
    /\ fetcher = 0
    /\ price_data = EmptyDict
    /\ price_ref = 0
    /\ closed = FALSE
    /\ heap = [p \in Threads |-> EmptyDict]
    /\ dataPass = 0
    /\ label = [kind |-> "loading", pass |-> 0]
    /\ slotStack = <<>>
    /\ events = <<>>
    /\ created = 0
    /\ tstate = [p \in Threads |-> "none"]
    /\ t_symbols = [p \in Threads |-> <<>>]
    /\ t_fetch = [p \in Threads |-> "pending"]
    /\ t_signals = [p \in Threads |-> {}]
    /\ last = "other"

\* update_price, lines 376-399, called with self.symbols = syms and
\* self.refresh_interval = ri.  how is the way the call goes:
\*   "dropped"   lines 381-383, a pass is running
\*   "started"   lines 385-395
\*   "failed"    lines 396-399, creating or starting the thread raised
\* The call sets every overlay variable but symbols and refresh_interval.
update_price(how, syms, ri) ==
    /\ last' = how
    /\ UNCHANGED <<price_data, price_ref, closed, dataPass, slotStack, events,
                   t_fetch, t_signals, heap>>
    /\ \/ /\ how = "dropped"
          /\ IsRunning(fetcher)
          /\ UNCHANGED <<timerActive, timerInterval, fetcher, label, threadVars>>
       \/ /\ how = "started"
          /\ ~IsRunning(fetcher)
          /\ created < MaxPasses
          /\ timerActive' = FALSE
          /\ fetcher' = created + 1
          /\ created' = created + 1
          /\ tstate' = [tstate EXCEPT ![created + 1] = "run"]
          /\ t_symbols' = [t_symbols EXCEPT ![created + 1] = syms]
          /\ UNCHANGED <<timerInterval, label>>
       \/ /\ how = "failed"
          /\ ~IsRunning(fetcher)
          /\ created < MaxPasses
          \* the thread object was created (line 390) and never started
          /\ fetcher' = created + 1
          /\ created' = created + 1
          /\ tstate' = [tstate EXCEPT ![created + 1] = "unstarted"]
          /\ t_symbols' = [t_symbols EXCEPT ![created + 1] = syms]
          \* handle_error, then restart_timer on the stopped timer
          /\ label' = [kind |-> "error", pass |-> 0]
          /\ timerActive' = TRUE
          /\ timerInterval' = ri * 1000

Hows == {"dropped", "started", "failed"}

\* QTimer.timeout of the refresh timer -> update_price
TimerTimeout ==
    /\ timerActive
    /\ \E how \in Hows : update_price(how, symbols, refresh_interval)
    /\ UNCHANGED <<symbols, refresh_interval>>

\* QShortcut F5 -> update_price, line 189
F5 ==
    /\ ~closed
    /\ \E how \in Hows : update_price(how, symbols, refresh_interval)
    /\ UNCHANGED <<symbols, refresh_interval>>

\* on_settings_applied with "symbols" in settings, lines 853-856
SettingsSymbols ==
    \E syms \in OvSymbolLists, how \in Hows :
        /\ ~closed
        /\ symbols' = syms
        /\ update_price(how, syms, refresh_interval)
        /\ UNCHANGED refresh_interval

\* on_settings_applied with "refresh_interval" in settings, lines 858-863
SettingsInterval ==
    \E ri \in RefreshIntervals :
        /\ ~closed
        /\ refresh_interval' = ri
        /\ timerInterval' = IF timerActive THEN ri * 1000 ELSE timerInterval
        /\ last' = "other"
        /\ UNCHANGED <<symbols, timerActive, fetcher, price_data, price_ref, closed,
                       dataPass, label, slotStack, events, threadVars>>

\* A slip on line 403: the test inverted, `if self.timer.isActive()`.
restart_timer_when_active ==
    /\ timerActive' = timerActive
    /\ timerInterval' = IF timerActive THEN refresh_interval * 1000 ELSE timerInterval

\* restart_timer, lines 401-405
restart_timer ==
    /\ timerActive' = TRUE
    /\ timerInterval' = IF timerActive THEN timerInterval ELSE refresh_interval * 1000

\* The GUI thread takes the next queued signal and runs its slot:
\*   result_ready   -> update_price_slot, lines 417-425, up to processEvents()
\*   error_occurred -> handle_error, lines 722-729
\*   finished       -> restart_timer
Deliver ==
    /\ events # <<>>
    /\ LET e == Head(events)
       IN  /\ events' = Tail(events)
           /\ last' = "other"
           /\ UNCHANGED <<symbols, refresh_interval, fetcher, closed, threadVars>>
           /\ \/ /\ e.sig = "result_ready"
                 /\ price_data' = e.arg
                 /\ price_ref' = results_obj(e.pass)
                 /\ dataPass' = e.pass
                 /\ slotStack' = Append(slotStack, e.pass)
                 /\ UNCHANGED <<timerActive, timerInterval, label>>
              \/ /\ e.sig = "error_occurred"
                 /\ label' = [kind |-> "error", pass |-> e.pass]
                 /\ UNCHANGED <<timerActive, timerInterval, price_data, price_ref, dataPass,
                                slotStack>>
              \/ /\ e.sig = "finished"
                 /\ restart_timer
                 /\ UNCHANGED <<price_data, price_ref, dataPass, label, slotStack>>

\* Line 390 drops the overlay's only reference to the previous thread object.
\* A signal of a destroyed sender that is still queued may not reach its slot.
DropStale ==
    /\ events # <<>>
    /\ Head(events).pass # fetcher
    /\ events' = Tail(events)
    /\ last' = "other"
    /\ UNCHANGED <<guiVars, threadVars>>

\* update_price_slot, lines 427-433, after processEvents() has returned:
\* update_price_display shows self.price_data.
SlotResume ==
    /\ slotStack # <<>>
    /\ slotStack' = SubSeq(slotStack, 1, Len(slotStack) - 1)
    /\ label' = [kind |-> "prices", pass |-> dataPass]
    /\ last' = "other"
    /\ UNCHANGED <<symbols, refresh_interval, timerActive, timerInterval, fetcher,
                   price_data, price_ref, closed, dataPass, events, threadVars>>

\* PriceFetcherThread.run, lines 17-23, on the worker thread: fetch, then one
\* emit, which posts the slot call to the GUI thread.
WorkerRun(p) ==
    /\ tstate[p] = "run"
    /\ \E env \in OvEnvs(t_symbols[p]) :
          LET out == fetch(t_symbols[p], env.rate, env.prices, env.klines, env.upbit)
              sigs == run_signal(out)
          IN  /\ t_fetch' = [t_fetch EXCEPT ![p] = IF out.raised THEN "raised" ELSE "returned"]
              /\ t_signals' = [t_signals EXCEPT ![p] = sigs]
              /\ heap' = IF out.raised THEN heap
                         ELSE [heap EXCEPT ![results_obj(p)] = out.results]
              /\ events' = events \o
                    (IF "result_ready" \in sigs
                     THEN <<[sig |-> "result_ready", pass |-> p, arg |-> out.results]>>
                     ELSE <<>>) \o
                    (IF "error_occurred" \in sigs
                     THEN <<[sig |-> "error_occurred", pass |-> p, arg |-> NoArg]>>
                     ELSE <<>>)
    /\ tstate' = [tstate EXCEPT ![p] = "returned"]
    /\ last' = "other"
    /\ UNCHANGED <<guiVars, created, t_symbols>>

\* QThread: run() has returned and the thread enters its finish phase, from
\* which on isRunning() is false.
WorkerEnterFinish(p) ==
    /\ tstate[p] = "returned"
    /\ tstate' = [tstate EXCEPT ![p] = "finishing"]
    /\ last' = "other"
    /\ UNCHANGED <<guiVars, events, created, t_symbols, t_fetch, t_signals, heap>>

\* QThread: the finish phase emits finished (connected on line 393).
WorkerEmitFinished(p) ==
    /\ tstate[p] = "finishing"
    /\ tstate' = [tstate EXCEPT ![p] = "finished"]
    /\ events' = Append(events, [sig |-> "finished", pass |-> p, arg |-> NoArg])
    /\ last' = "other"
    /\ UNCHANGED <<guiVars, created, t_symbols, t_fetch, t_signals, heap>>

\* closeEvent, lines 896-920: the timer is stopped; a running fetcher is
\* terminated and waited for.  A terminated thread emits no signal of run()
\* any more; whether its finished signal is still posted is left open.
CloseEvent ==
    /\ ~closed
    /\ closed' = TRUE
    /\ timerActive' = FALSE
    /\ last' = "other"
    /\ IF IsRunning(fetcher)
       THEN /\ tstate' = [tstate EXCEPT ![fetcher] = "terminated"]
            /\ \E emitted \in BOOLEAN :
                  events' = IF emitted
                            THEN Append(events, [sig |-> "finished", pass |-> fetcher,
                                                 arg |-> NoArg])
                            ELSE events
       ELSE UNCHANGED <<tstate, events>>
    /\ UNCHANGED <<symbols, refresh_interval, timerInterval, fetcher, price_data,
                   price_ref, dataPass, label, slotStack, created, t_symbols, t_fetch,
                   t_signals, heap>>

Next ==
    \/ (TimerTimeout /\ UNCHANGED <<fetchVars, morningVars, passVars, cfgVars>>)
    \/ (F5 /\ UNCHANGED <<fetchVars, morningVars, passVars, cfgVars>>)
    \/ (SettingsSymbols /\ UNCHANGED <<fetchVars, morningVars, passVars, cfgVars>>)
    \/ (SettingsInterval /\ UNCHANGED <<fetchVars, morningVars, passVars, cfgVars>>)
    \/ (Deliver /\ UNCHANGED <<fetchVars, morningVars, passVars, cfgVars>>)
    \/ (DropStale /\ UNCHANGED <<fetchVars, morningVars, passVars, cfgVars>>)
    \/ (SlotResume /\ UNCHANGED <<fetchVars, morningVars, passVars, cfgVars>>)
    \/ (CloseEvent /\ UNCHANGED <<fetchVars, morningVars, passVars, cfgVars>>)
    \/ (\E p \in Threads : WorkerRun(p) /\ UNCHANGED <<fetchVars, morningVars, passVars, cfgVars>>)
    \/ (\E p \in Threads : WorkerEnterFinish(p) /\ UNCHANGED <<fetchVars, morningVars, passVars, cfgVars>>)
    \/ (\E p \in Threads : WorkerEmitFinished(p) /\ UNCHANGED <<fetchVars, morningVars, passVars, cfgVars>>)

(***************************************************************************)
(* ConfigManager: get, set, update, reset over self._config and            *)
(* self._default_config (config_manager.py).                               *)
(***************************************************************************)

\* Keys asked for: two with a built-in default (lines 26-40) and one without
\* (overlay.py line 256 stores "display_mode").
Keys == {"refresh_interval", "font_size", "display_mode"}

\* Values written by set and update or found in settings.json.
CfgValues == {5, 9}

\* The `default` argument of get.
CfgDefaults == {0, 7}

\* lines 26-40: the built-in defaults (of the keys asked for)
default_config == [k \in {"refresh_interval", "font_size"} |->
                      IF k = "refresh_interval" THEN 2 ELSE 12]

\* The dict objects: the one self._default_config names, and the one made
\* by the latest copy() or json.load().
DefaultObj == 0
OwnObj == 1

\* Every dict over the keys asked for.
StoredDicts == UNION {[S -> CfgValues] : S \in SUBSET Keys}

\* dict.get(key, default)
dict_get(d, key, default) == IF key \in DOMAIN d THEN d[key] ELSE default

\* dict.update(settings)
dict_update(d, settings) ==
    [k \in (DOMAIN d) \cup (DOMAIN settings) |->
        IF k \in DOMAIN settings THEN settings[k] ELSE d[k]]

\* No copy: the name is bound to the very object copied from.
dict_copy_alias(h, obj) == [ref |-> obj, heap |-> h]

\* dict.copy(): a new dict object holding the same items
dict_copy(h, obj) == [ref |-> OwnObj, heap |-> [h EXCEPT ![OwnObj] = h[obj]]]

\* line 92
get(key, default) ==
    dict_get(cfg_heap[config], key, dict_get(cfg_heap[DefaultObj], key, default))

\* lines 70-79: json.dump to settings.json; a failure is logged and ignored
save(file, content, ok) ==
    IF ok THEN [kind |-> "dict", content |-> content] ELSE file

FileMissing == [kind |-> "missing", content |-> EmptyDict]
FileCorrupt == [kind |-> "corrupt", content |-> EmptyDict]

FileStates ==
    {FileMissing, FileCorrupt} \cup {[kind |-> "dict", content |-> c] : c \in StoredDicts}

CfgCall(op, key, d, result) == [op |-> op, key |-> key, d |-> d, result |-> result]

\* lines 26-41: _default_config built, _config = {}
NewHeap == [o \in {DefaultObj, OwnObj} |-> IF o = DefaultObj THEN default_config ELSE EmptyDict]

ConfigIdle ==
    /\ cfg_heap = NewHeap
    /\ config = OwnObj
    /\ cfg_file = FileMissing
    /\ cfg_last = CfgCall("none", "", 0, 0)
    /\ cfg_written = {}

\* lines 21-43 and load (54-68): the stored dict when settings.json holds
\* one; a copy of the defaults, saved, when the file is missing; a copy of
\* the defaults when reading fails.
ConfigInit ==
    \E file \in FileStates, ok \in BOOLEAN :
        /\ cfg_last = CfgCall("load", "", 0, 0)
        /\ cfg_written = {}
        /\ IF file.kind = "dict"
           THEN /\ cfg_heap = [NewHeap EXCEPT ![OwnObj] = file.content]
                /\ config = OwnObj
                /\ cfg_file = file
           ELSE LET c == dict_copy(NewHeap, DefaultObj)
                IN  /\ cfg_heap = c.heap
                    /\ config = c.ref
                    /\ cfg_file = IF file.kind = "missing"
                                  THEN save(file, c.heap[c.ref], ok)
                                  ELSE file

\* lines 81-92
ConfigGet ==
    \E key \in Keys, d \in CfgDefaults :
        /\ cfg_last' = CfgCall("get", key, d, get(key, d))
        /\ UNCHANGED <<cfg_heap, config, cfg_file, cfg_written>>

\* lines 94-102: self._config[key] = value
ConfigSet ==
    \E key \in Keys, value \in CfgValues :
        /\ cfg_heap' = [cfg_heap EXCEPT ![config] = DictSet(@, key, value)]
        /\ cfg_written' = cfg_written \cup {key}
        /\ cfg_last' = CfgCall("set", key, 0, 0)
        /\ UNCHANGED <<config, cfg_file>>

\* lines 104-111: self._config.update(settings)
ConfigUpdate ==
    \E settings \in StoredDicts :
        /\ cfg_heap' = [cfg_heap EXCEPT ![config] = dict_update(@, settings)]
        /\ cfg_written' = cfg_written \cup DOMAIN settings
        /\ cfg_last' = CfgCall("update", "", 0, 0)
        /\ UNCHANGED <<config, cfg_file>>

\* lines 122-127: self._config = self._default_config.copy(); self.save()
ConfigReset ==
    \E ok \in BOOLEAN :
        LET c == dict_copy(cfg_heap, DefaultObj)
        IN  /\ cfg_heap' = c.heap
            /\ config' = c.ref
            /\ cfg_file' = save(cfg_file, c.heap[c.ref], ok)
            /\ cfg_last' = CfgCall("reset", "", 0, 0)
            /\ UNCHANGED cfg_written

ConfigNext ==
    \/ (ConfigGet /\ UNCHANGED <<fetchVars, morningVars, passVars, ovVars>>)
    \/ (ConfigSet /\ UNCHANGED <<fetchVars, morningVars, passVars, ovVars>>)
    \/ (ConfigUpdate /\ UNCHANGED <<fetchVars, morningVars, passVars, ovVars>>)
    \/ (ConfigReset /\ UNCHANGED <<fetchVars, morningVars, passVars, ovVars>>)

ConfigSpecInit == ConfigInit /\ FetchIdle /\ MorningIdle /\ PassIdle /\ OverlayIdle

ConfigSpec == ConfigSpecInit /\ [][ConfigNext]_vars

FetchSpecInit == FetchInit /\ MorningIdle /\ PassIdle /\ OverlayIdle /\ ConfigIdle

FetchSpec == FetchSpecInit /\ [][FetchNext]_vars

MorningSpecInit == MorningInit /\ FetchIdle /\ PassIdle /\ OverlayIdle /\ ConfigIdle

MorningSpec == MorningSpecInit /\ [][MorningNext]_vars

PassSpecInit == PassInit /\ FetchIdle /\ OverlayIdle /\ ConfigIdle

PassSpec == PassSpecInit /\ [][PassNext]_vars

Init == OverlayInit /\ FetchIdle /\ MorningIdle /\ PassIdle /\ ConfigIdle

Spec == Init /\ [][Next]_vars

\* The worker threads are scheduled and their requests return.
Fairness ==
    \A p \in Threads :
        /\ WF_vars(WorkerRun(p) /\ UNCHANGED <<fetchVars, morningVars, passVars, cfgVars>>)
        /\ WF_vars(WorkerEnterFinish(p) /\ UNCHANGED <<fetchVars, morningVars, passVars, cfgVars>>)
        /\ WF_vars(WorkerEmitFinished(p) /\ UNCHANGED <<fetchVars, morningVars, passVars, cfgVars>>)

LiveSpec == Spec /\ Fairness

\* The GUI thread's event loop runs: a queued signal is taken from the queue.
GuiFairness == WF_vars(Deliver /\ UNCHANGED <<fetchVars, morningVars, passVars, cfgVars>>)

LiveGuiSpec == Spec /\ Fairness /\ GuiFairness

\* The refresh timer fires while it is active.
TimerFairness == WF_vars(TimerTimeout /\ UNCHANGED <<fetchVars, morningVars, passVars, cfgVars>>)

LiveTimerSpec == Spec /\ Fairness /\ GuiFairness /\ TimerFairness

(***************************************************************************)
(* Properties of one aggregation pass (FetchSpec).                         *)
(***************************************************************************)
\* What the pass was given for a symbol: the outcomes of the later of its
\* requests when the symbol is listed twice.
LastPos(s) ==
    CHOOSE i \in 1..Len(f_symbols) :
        /\ f_symbols[i] = s
        /\ \A j \in (i + 1)..Len(f_symbols) : f_symbols[j] # s

PrimaryOf(s) == f_env.prices[LastPos(s)]

ReferenceOf(s) ==
    LET k == f_env.klines[LastPos(s)]
    IN  IF k = None \/ k = Some(<<>>) THEN None ELSE Some(k[1][1][2])

RateOf == IF f_env.rate = None THEN 0 ELSE f_env.rate[1]

\* The markets whose price the pass obtained from Upbit.
FetchedMarkets ==
    IF f_env.upbit = None THEN {}
    ELSE {f_env.upbit[1][i].market :
            i \in {k \in 1..Len(f_env.upbit[1]) :
                     \A j \in 1..k : f_env.upbit[1][j].trade_price # None}}

Returned == f_pc = "done" /\ ~f_out.raised
Raised == f_pc = "done" /\ f_out.raised

\* a / b = n / d for fractions with non-zero denominators
SameFrac(a, b, n, d) == a * d = n * b

\* C6: absence propagation.  After a pass, a symbol whose primary price fetch
\* returned absent has no reference_change_pct and no cross_market_premium_pct
\* in the result, whatever the other sources returned.
C6_AbsencePropagation ==
    f_pc = "done" =>
        \A s \in Range(f_symbols) :
            (PrimaryOf(s) = None /\ s \in DOMAIN f_out.results) =>
                /\ f_out.results[s][1] = None
                /\ f_out.results[s][2] = None
                /\ f_out.results[s][3] = None

\* C6 witness: a pass has returned a tuple for a symbol whose primary price is
\* absent while its reference price, the rate and its Upbit price were fetched.
C6_Witness ==
    /\ Returned
    /\ \E s \in Range(f_symbols) :
          /\ PrimaryOf(s) = None
          /\ ReferenceOf(s) = Some(100)
          /\ RateOf > 0
          /\ to_upbit_symbol(s) # None
          /\ to_upbit_symbol(s)[1] \in FetchedMarkets
          /\ f_out.results[s] = <<None, None, None>>

\* C7 as claimed: failure isolation.  For every symbol list and every
\* combination of outcomes of the four sources, fetch() returns without
\* raising and its result has an entry for every input symbol.
C7_FetchNeverRaises ==
    f_pc = "done" =>
        /\ ~f_out.raised
        /\ DOMAIN f_out.results = Range(f_symbols)

\* C8 as claimed: reference_change_pct of a symbol is defined exactly when its
\* primary price is present and its reference price is present and > 0, and it
\* then equals (primary - reference) / reference * 100.
C8_ReferenceChange ==
    f_pc = "done" =>
        \A s \in Range(f_symbols) :
            LET p == PrimaryOf(s)
                r == ReferenceOf(s)
                due == p # None /\ r # None /\ r[1] > 0
                has == s \in DOMAIN f_out.results /\ f_out.results[s][2] # None
            IN  /\ has <=> due
                /\ has => SameFrac(f_out.results[s][2][1][1], f_out.results[s][2][1][2],
                                   (p[1] - r[1]) * 100, r[1])

\* C9 as claimed: cross_market_premium_pct of a symbol is defined exactly when
\* its primary price is present, the rate is > 0, the symbol has a secondary
\* mapping and that market's price was fetched, and it then equals
\* (secondary - primary * rate) / (primary * rate) * 100.
C9_Premium ==
    f_pc = "done" =>
        \A s \in Range(f_symbols) :
            LET p == PrimaryOf(s)
                u == to_upbit_symbol(s)
                due == p # None /\ RateOf > 0 /\ u # None /\ u[1] \in FetchedMarkets
                has == s \in DOMAIN f_out.results /\ f_out.results[s][3] # None
            IN  /\ has <=> due
                /\ has => /\ p[1] * RateOf # 0
                          /\ SameFrac(f_out.results[s][3][1][1], f_out.results[s][3][1][2],
                                      (UpbitQuote(u[1]) - p[1] * RateOf) * 100, p[1] * RateOf)

(***************************************************************************)
(* Properties of the reference window (MorningSpec).                       *)
(***************************************************************************)
\* C10 as claimed: when the wall-clock time of day at which the call reads the
\* time is before 09:00 the reference day is the calendar day before that
\* instant's day, and from 09:00 on it is that instant's day.
C10_ReferenceDay ==
    m_pc = "sent" =>
        m_request.target_date =
            IF TimeOf(m_now) < morning_time THEN DateOf(m_now) - 1 ELSE DateOf(m_now)

(***************************************************************************)
(* Properties of the overlay and its worker threads (Spec, LiveSpec).      *)
(***************************************************************************)
\* The thread objects whose run() is executing: an aggregation pass in flight.
InFlight == {p \in Threads : tstate[p] \in {"run", "returned"}}

\* The step is a call of update_price.
IsRequest == last' \in Hows

\* C1: at most one in flight.  In every reachable state, whatever the
\* interleaving of refresh requests with worker start and completion, at most
\* one PriceFetcherThread is executing its run().
C1_AtMostOneInFlight == Cardinality(InFlight) <= 1

\* C1 witness: a second pass is running while the thread of the first is still
\* in its finish phase, and a further request has just been made.
C1_Witness ==
    /\ tstate[1] = "finishing"
    /\ tstate[2] = "run"
    /\ last = "dropped"

\* C2: a refresh request made while a pass is running is a no-op.  It starts
\* no pass, leaves the fetcher and the timer as they are and queues nothing,
\* so requests made before the pass completes leave one pass executing.
C2_RequestWhileRunningIsNoOp ==
    [][(IsRequest /\ InFlight # {}) =>
          /\ last' = "dropped"
          /\ UNCHANGED <<timerActive, timerInterval, fetcher, price_data, dataPass,
                         label, slotStack, events, threadVars>>]_vars

\* C2 witness: the first pass is still fetching and the request made after it
\* started has been dropped; one thread object exists.
C2_Witness ==
    /\ last = "dropped"
    /\ created = 1
    /\ tstate[1] = "run"
    /\ fetcher = 1
    /\ events = <<>>

\* C3: every pass whose run() has ended emitted exactly one signal:
\* result_ready when fetch() returned, error_occurred when fetch() raised.
C3_ExactlyOneSignal ==
    \A p \in Threads :
        tstate[p] \in {"returned", "finishing", "finished"} =>
            \/ t_fetch[p] = "returned" /\ t_signals[p] = {"result_ready"}
            \/ t_fetch[p] = "raised" /\ t_signals[p] = {"error_occurred"}

\* C3 witness: one pass ended by raising and one by returning.
C3_Witness ==
    /\ tstate[1] = "finished" /\ t_fetch[1] = "raised"
    /\ t_signals[1] = {"error_occurred"}
    /\ tstate[2] = "finished" /\ t_fetch[2] = "returned"
    /\ t_signals[2] = {"result_ready"}

\* C4: every started pass eventually leaves the wrapper idle again, whether
\* fetch() returns or raises, and a refresh request made while idle is never
\* dropped: it takes the start path, and a pass it starts is a new running one.
C4_ReturnsToIdle ==
    /\ \A p \in Threads :
          (tstate[p] = "run") ~> (tstate[p] \in {"finishing", "finished", "terminated"})
    /\ [][(IsRequest /\ InFlight = {}) =>
             /\ last' # "dropped"
             /\ last' = "started" =>
                   /\ created' = created + 1
                   /\ fetcher' = created'
                   /\ tstate'[fetcher'] = "run"]_vars

\* C4 witness: a pass that raised has ended and the next request has started
\* a second pass.
C4_Witness ==
    /\ tstate[1] = "finished" /\ t_fetch[1] = "raised"
    /\ tstate[2] = "run"
    /\ fetcher = 2
    /\ last = "started"

\* C5: results reach update_price_slot in pass order, and what the label shows
\* after a result is the newest delivered price_data: neither ever goes back
\* to an older pass.
C5_PassOrder ==
    [][/\ dataPass' >= dataPass
       /\ (label' # label /\ label'.kind = "prices") => label'.pass = dataPass']_vars

\* C5 witness: the slot of pass 1 is still inside processEvents() while the
\* result of pass 2 has been delivered and shown.
C5_Witness ==
    /\ slotStack = <<1>>
    /\ dataPass = 2
    /\ label = [kind |-> "prices", pass |-> 2]

(***************************************************************************)
(* Further properties of one aggregation pass (FetchSpec).                 *)
(***************************************************************************)
\* C11 as claimed: to_upbit_symbol(s) is "KRW-" followed by s without its
\* trailing "USDT" when s ends with "USDT", also when "USDT" occurs elsewhere
\* in s, and is absent when s does not end with "USDT".
C11_SymbolMapping ==
    f_pc = "done" =>
        \A s \in Range(f_symbols) :
            to_upbit_symbol(s) =
                IF endswith(s, USDT)
                THEN Some(KRW \o SubSeq(s, 1, Len(s) - Len(USDT)))
                ELSE None

\* The batched Upbit call of the pass failed: the request raised, or handling
\* one of the returned items raised.
BatchFailed ==
    /\ upbit_markets(f_symbols) # <<>>
    /\ \/ f_env.upbit = None
       \/ \E i \in 1..Len(f_env.upbit[1]) : f_env.upbit[1][i].trade_price = None

\* The response of a batched call that succeeds for every market asked.
BatchOk ==
    Some(UpbitItems(upbit_markets(f_symbols),
                    [i \in 1..Len(upbit_markets(f_symbols)) |-> "ok"], 1))

\* C12 as claimed: batch independence.  When the batched secondary call fails
\* at any point, every symbol has its tuple, with the primary price and
\* reference_change_pct it has when the call succeeds and with
\* cross_market_premium_pct absent.
C12_BatchIndependence ==
    (f_pc = "done" /\ BatchFailed) =>
        LET ok == fetch(f_symbols, f_env.rate, f_env.prices, f_env.klines, BatchOk)
        IN  \A s \in Range(f_symbols) :
                /\ s \in DOMAIN f_out.results
                /\ f_out.results[s][3] = None
                /\ s \in DOMAIN ok.results =>
                      /\ f_out.results[s][1] = ok.results[s][1]
                      /\ f_out.results[s][2] = ok.results[s][2]

\* C14: when the exchange-rate fetch fails, fetch_usd_krw_rate gives 0.0 and
\* nothing is raised: the pass returns a tuple for every symbol with
\* cross_market_premium_pct absent, the primary price as fetched and
\* reference_change_pct as the primary and reference prices determine it,
\* the same two values a pass with a fetched rate returns.
C14_RateFailure ==
    (f_pc = "done" /\ f_env.rate = None) =>
        /\ ~f_out.raised
        /\ DOMAIN f_out.results = Range(f_symbols)
        /\ \A s \in Range(f_symbols) :
              LET p == PrimaryOf(s)
                  r == ReferenceOf(s)
                  due == p # None /\ r # None /\ r[1] > 0
                  t == f_out.results[s]
              IN  /\ t[3] = None
                  /\ t[1] = p
                  /\ (t[2] # None) <=> due
                  /\ due => SameFrac(t[2][1][1], t[2][1][2], (p[1] - r[1]) * 100, r[1])
        /\ \A rate \in RateOutcomes :
              LET o == fetch(f_symbols, rate, f_env.prices, f_env.klines, f_env.upbit)
              IN  ~o.raised =>
                     \A s \in Range(f_symbols) :
                        /\ o.results[s][1] = f_out.results[s][1]
                        /\ o.results[s][2] = f_out.results[s][2]

\* C14 witness: the rate fetch failed in a pass where a symbol has its
\* primary price, its reference price and its Upbit price; the tuple has the
\* price and the change and no premium.
C14_Witness ==
    /\ Returned
    /\ f_env.rate = None
    /\ \E s \in Range(f_symbols) :
          /\ PrimaryOf(s) = Some(110)
          /\ ReferenceOf(s) = Some(100)
          /\ to_upbit_symbol(s) # None
          /\ to_upbit_symbol(s)[1] \in FetchedMarkets
          /\ f_out.results[s] = <<Some(110), Some(<<10, 1>>), None>>

\* C15: when the primary price fetch of a symbol fails, the current_price of
\* its tuple is absent, not 0, the failure raises nothing, and the pass ends
\* for the other symbols as it does when that fetch gives a price: it raises
\* in the same cases and returns the same tuples for them.
C15_PrimaryFailure ==
    f_pc = "done" =>
        \A i \in 1..Len(f_symbols) :
            f_env.prices[i] = None =>
                /\ (~f_out.raised /\ LastPos(f_symbols[i]) = i) =>
                      /\ f_symbols[i] \in DOMAIN f_out.results
                      /\ f_out.results[f_symbols[i]][1] = None
                /\ \A alt \in {Some(90), Some(110)} :
                      LET o == fetch(f_symbols, f_env.rate, [f_env.prices EXCEPT ![i] = alt],
                                     f_env.klines, f_env.upbit)
                      IN  /\ o.raised = f_out.raised
                          /\ DOMAIN o.results = DOMAIN f_out.results
                          /\ \A t \in (DOMAIN f_out.results) \ {f_symbols[i]} :
                                o.results[t] = f_out.results[t]

\* C15 witness: the price fetch of the first symbol failed and the second
\* symbol has its full tuple.
C15_Witness ==
    /\ Returned
    /\ f_symbols = <<ETHUSDT, BTCUSDT>>
    /\ f_env.prices[1] = None
    /\ f_out.results[ETHUSDT] = <<None, None, None>>
    /\ f_out.results[BTCUSDT] = <<Some(110), Some(<<10, 1>>), Some(<<0 - 10, 1>>)>>

\* C16 as claimed: a symbol whose primary price is exactly 0 is treated as
\* having no usable price for the derived metrics: the pass does not raise,
\* and reference_change_pct and cross_market_premium_pct of the symbol are
\* absent, also when the rate is positive and its Upbit price was fetched.
C16_ZeroPrice ==
    f_pc = "done" =>
        \A s \in Range(f_symbols) :
            PrimaryOf(s) = Some(0) =>
                /\ ~f_out.raised
                /\ s \in DOMAIN f_out.results
                /\ f_out.results[s][2] = None
                /\ f_out.results[s][3] = None

\* What a response of the batched call holds for a market.
ItemsFor(resp, market) ==
    IF resp = None THEN <<>> ELSE SelectSeq(resp[1], LAMBDA item : item.market = market)

\* The outcomes of a pass over f_symbols that differ from f_env only in what
\* was fetched for symbols other than a: same rate, same outcomes of a's own
\* price and reference requests, same outcome of the batched request as far
\* as a's own market goes.
OtherOutcomes(a) ==
    {e \in [rate : {f_env.rate},
            prices : [1..Len(f_symbols) -> PriceOutcomes],
            klines : [1..Len(f_symbols) -> KlineOutcomes],
            upbit : UpbitOutcomes(upbit_markets(f_symbols))] :
        /\ \A i \in 1..Len(f_symbols) :
              f_symbols[i] = a =>
                 (e.prices[i] = f_env.prices[i] /\ e.klines[i] = f_env.klines[i])
        /\ (e.upbit = None) <=> (f_env.upbit = None)
        /\ to_upbit_symbol(a) # None =>
              ItemsFor(e.upbit, to_upbit_symbol(a)[1])
                 = ItemsFor(f_env.upbit, to_upbit_symbol(a)[1])}

\* C19 as claimed: per-symbol independence.  The tuple of a symbol a depends
\* only on a's own primary and reference prices, the rate and the secondary
\* price of a's mapped symbol: whatever is fetched for the other symbols of
\* the pass, a zero price or a malformed secondary entry included, a has the
\* same tuple.
C19_SymbolIndependence ==
    f_pc = "done" =>
        \A a \in Range(f_symbols) :
            \A e \in OtherOutcomes(a) :
                LET o == fetch(f_symbols, e.rate, e.prices, e.klines, e.upbit)
                IN  /\ a \in DOMAIN f_out.results
                    /\ a \in DOMAIN o.results
                    /\ o.results[a] = f_out.results[a]

\* The markets the batched request of the pass asks for, line 48.
MarketsAsked == upbit_markets(f_symbols)

\* The secondary symbol the claim gives a symbol: "KRW-" and the symbol
\* without its trailing "USDT".
MarketOf(s) == KRW \o SubSeq(s, 1, Len(s) - Len(USDT))

\* C20 as claimed: the markets asked in the batched call are exactly the
\* secondary symbols of the mappable input symbols, each once, and the premium
\* of a symbol is computed from the trade price returned for its own market.
C20_MarketsRequested ==
    f_pc = "done" =>
        /\ Range(MarketsAsked) = {MarketOf(s) : s \in {x \in Range(f_symbols) : endswith(x, USDT)}}
        /\ \A j, k \in 1..Len(MarketsAsked) : MarketsAsked[j] = MarketsAsked[k] => j = k
        /\ \A s \in Range(f_symbols) :
              (s \in DOMAIN f_out.results /\ f_out.results[s][3] # None) =>
                 /\ endswith(s, USDT)
                 /\ MarketOf(s) \in FetchedMarkets
                 /\ PrimaryOf(s) # None
                 /\ PrimaryOf(s)[1] * RateOf # 0
                 /\ SameFrac(f_out.results[s][3][1][1], f_out.results[s][3][1][2],
                             (UpbitQuote(MarketOf(s)) - PrimaryOf(s)[1] * RateOf) * 100,
                             PrimaryOf(s)[1] * RateOf)

\* The candles the reference query of a symbol returned; none when it failed.
CandlesOf(s) ==
    LET k == f_env.klines[LastPos(s)] IN IF k = None THEN <<>> ELSE k[1]

\* C22: the reference price of a symbol is the open price, field index 1, of
\* the first candle returned; it is absent when the query returns an empty
\* list or fails, and then reference_change_pct is absent.  What the query
\* returns changes neither the primary price nor the premium of the symbol nor
\* whether the pass returns.
C22_ReferencePrice ==
    f_pc = "done" =>
        \A i \in 1..Len(f_symbols) :
            LET s == f_symbols[i]
                p == PrimaryOf(s)
                candles == CandlesOf(s)
            IN  /\ (~f_out.raised /\ candles = <<>>) => f_out.results[s][2] = None
                /\ (~f_out.raised /\ candles # <<>> /\ p # None /\ candles[1][2] > 0) =>
                      /\ f_out.results[s][2] # None
                      /\ SameFrac(f_out.results[s][2][1][1], f_out.results[s][2][1][2],
                                  (p[1] - candles[1][2]) * 100, candles[1][2])
                /\ \A alt \in KlineOutcomes :
                      LET o == fetch(f_symbols, f_env.rate, f_env.prices,
                                     [f_env.klines EXCEPT ![i] = alt], f_env.upbit)
                      IN  /\ o.raised = f_out.raised
                          /\ \A t \in DOMAIN f_out.results :
                                /\ o.results[t][1] = f_out.results[t][1]
                                /\ o.results[t][3] = f_out.results[t][3]

\* C22 witness: one symbol got two candles and its change is computed from
\* the open of the first; the query of the other returned no candle and its
\* tuple has the price and the premium and no change.
C22_Witness ==
    /\ Returned
    /\ f_symbols = <<BTCUSDT, ETHUSDT>>
    /\ f_env.klines = <<Some(<<Candle(100), Candle(50)>>), Some(<<>>)>>
    /\ f_out.results[BTCUSDT] = <<Some(90), Some(<<0 - 10, 1>>), Some(<<10, 1>>)>>
    /\ f_out.results[ETHUSDT] = <<Some(110), None, Some(<<10, 1>>)>>

(***************************************************************************)
(* Properties of the network calls of a pass (PassSpec).                   *)
(***************************************************************************)
PassDone == p_pc = "done"

\* The batched secondary requests the pass has sent.
UpbitCalls == SelectSeq(p_calls, LAMBDA c : c.call = "upbit")

\* The input symbols that have a secondary symbol: those ending in "USDT".
Mappable == {s \in Range(p_symbols) : endswith(s, USDT)}

\* C13 as claimed: every pass issues exactly one batched secondary request,
\* whatever the number of symbols and of mappable symbols, never one per
\* symbol and never zero.
C13_ExactlyOneBatchedRequest == PassDone => Len(UpbitCalls) = 1

\* C13 amended: a pass never issues more than one batched secondary request;
\* it issues exactly one, asking for the markets of all its mappable symbols,
\* when at least one input symbol is mappable, and none when no input symbol
\* is mappable.
C13_OneBatchedRequestWhenMappable ==
    /\ Len(UpbitCalls) <= 1
    /\ PassDone =>
          /\ Len(UpbitCalls) = IF Mappable = {} THEN 0 ELSE 1
          /\ \A k \in 1..Len(UpbitCalls) :
                Range(UpbitCalls[k].markets) = {to_upbit_symbol(s)[1] : s \in Mappable}

\* C13 witness: a finished pass over two different mappable symbols whose one
\* batched request asked for both markets.
C13_Witness ==
    /\ PassDone
    /\ p_symbols = <<ETHUSDT, BTCUSDT>>
    /\ Len(UpbitCalls) = 1
    /\ Len(UpbitCalls[1].markets) = 2

\* The calls the pass has made: <<kind, symbol>> in the order sent.
CallsMade == [k \in 1..Len(p_calls) |-> <<p_calls[k].call, p_calls[k].symbol>>]

\* For each symbol in input order its primary-price call, then its
\* reference-price call.
SymbolCalls ==
    [k \in 1..(2 * Len(p_symbols)) |->
        IF k % 2 = 1 THEN <<"price", p_symbols[(k + 1) \div 2]>>
                     ELSE <<"kline", p_symbols[k \div 2]>>]

IsPrefix(a, b) == Len(a) <= Len(b) /\ a = SubSeq(b, 1, Len(a))

\* At most one request is awaiting its response, and it is the last one sent.
NoOverlap ==
    /\ Len(p_open) <= 1
    /\ p_open # <<>> => (p_calls # <<>> /\ p_open[1] = p_calls[Len(p_calls)])

\* C17 as claimed: the calls of a pass are the FX-rate call, once and first,
\* then per symbol in input order its primary-price call and its
\* reference-price call, then the batched secondary call last; no two calls
\* overlap.
C17_CallOrder ==
    /\ NoOverlap
    /\ PassDone => CallsMade = <<<<"rate", <<>>>>>> \o SymbolCalls \o <<<<"upbit", <<>>>>>>

\* The calls of a pass over p_symbols: the batched call is made when some
\* symbol is mappable.
ExpectedCalls ==
    <<<<"rate", <<>>>>>> \o SymbolCalls
        \o (IF Mappable = {} THEN <<>> ELSE <<<<"upbit", <<>>>>>>)

\* C17 amended: the calls of a pass are the FX-rate call, once and first, then
\* per symbol in input order its primary-price call and its reference-price
\* call, then, when at least one symbol is mappable, the batched secondary
\* call last; a pass without mappable symbols ends with the last
\* reference-price call.  No two calls overlap.
C17_CallOrderWhenMade ==
    /\ NoOverlap
    /\ IsPrefix(CallsMade, ExpectedCalls)
    /\ PassDone => CallsMade = ExpectedCalls

\* C17 witness: a finished pass over a mappable and an unmappable symbol, six
\* calls sent and answered.
C17_Witness ==
    /\ PassDone
    /\ p_symbols = <<BTCUSD, ETHUSDT>>
    /\ Len(p_calls) = 6
    /\ p_calls[6].call = "upbit"
    /\ p_open = <<>>

\* The reference-price calls the pass has sent.
KlineCalls == SelectSeq(p_calls, LAMBDA c : c.call = "kline")

\* C18 as claimed: within one pass every reference-price query has the same
\* window start, also when the wall clock passes 09:00 or midnight between
\* the fetches of two symbols.
C18_SameReferenceDay ==
    \A j, k \in 1..Len(KlineCalls) : KlineCalls[j].startTime = KlineCalls[k].startTime

(***************************************************************************)
(* Further properties of the reference window (MorningSpec).               *)
(***************************************************************************)
\* C21: the reference-price query covers the hour starting at 09:00 of the
\* reference day the call selected: startTime is that instant in
\* milliseconds, endTime is startTime + 3,600,000, interval is 1h, limit is 1.
C21_KlineWindow ==
    m_pc = "sent" =>
        /\ m_request.startTime % MsPerMinute = 0
        /\ DateOf(m_request.startTime \div MsPerMinute) = m_request.target_date
        /\ TimeOf(m_request.startTime \div MsPerMinute) = 9 * 60
        /\ m_request.endTime - m_request.startTime = 60 * MsPerMinute
        /\ m_request.endTime = m_request.startTime + 3600000
        /\ m_request.interval = "1h"
        /\ m_request.limit = 1

\* C21 witness: a request sent at 09:00 of day 1 for the window of day 1.
C21_Witness ==
    /\ m_pc = "sent"
    /\ m_now = MinutesPerDay + 9 * 60
    /\ m_request.target_date = 1
    /\ m_request.startTime = 118800000
    /\ m_request.endTime = 122400000

\* C25 as claimed: the window start selected is the most recent 09:00 at or
\* before the moment now is read, window_start <= now < window_start + 24h,
\* also when the clock passes midnight between date.today() and
\* datetime.now().
C25_MostRecentNineAm ==
    m_pc = "sent" =>
        /\ m_request.startTime <= m_now * MsPerMinute
        /\ m_now * MsPerMinute < m_request.startTime + MinutesPerDay * MsPerMinute

(***************************************************************************)
(* Further properties of the overlay and its worker threads.               *)
(***************************************************************************)
\* The results emitted and not yet taken from the queue.
QueuedResults == {i \in 1..Len(events) : events[i].sig = "result_ready"}

\* C23: each pass builds a fresh result mapping.  The dict the overlay keeps
\* as price_data, and every result still queued for it, holds what its pass
\* emitted, whatever later passes do; and no step changes the symbol list a
\* thread was given, nor does a worker step change the overlay's list.
C23_FreshResult ==
    /\ [](/\ price_ref # 0 => heap[price_ref] = price_data
          /\ \A i \in QueuedResults : heap[results_obj(events[i].pass)] = events[i].arg)
    /\ [][/\ \A p \in Threads : tstate[p] # "none" => t_symbols'[p] = t_symbols[p]
          /\ symbols' # symbols => IsRequest]_vars

\* C23 witness: the overlay holds the result of pass 1 while pass 2, over
\* another symbol list, has returned a different mapping.
C23_Witness ==
    /\ price_ref = 1
    /\ dataPass = 1
    /\ price_data # EmptyDict
    /\ heap[1] = price_data
    /\ t_fetch[2] = "returned"
    /\ heap[2] # EmptyDict
    /\ heap[2] # heap[1]

\* C24: no mid-pass cancellation.  While the run() of a pass is executing, no
\* step other than closeEvent ends it, replaces it by another pass or changes
\* its symbol list: it stays the overlay's fetcher until run() has emitted
\* result_ready or error_occurred.
C24_NoMidPassCancel ==
    [][\A p \in Threads :
          tstate[p] = "run" =>
             \/ ~closed /\ closed'
             \/ /\ fetcher = p
                /\ fetcher' = p
                /\ created' = created
                /\ t_symbols'[p] = t_symbols[p]
                /\ \/ tstate'[p] = "run"
                   \/ /\ tstate'[p] = "returned"
                      /\ t_signals'[p] \in {{"result_ready"}, {"error_occurred"}}]_vars

\* C24 witness: the symbol list and the refresh interval were changed and a
\* request was dropped while pass 1 was running, and the pass has emitted its
\* result for the list it was started with.
C24_Witness ==
    /\ created = 1
    /\ tstate[1] = "returned"
    /\ t_signals[1] = {"result_ready"}
    /\ t_symbols[1] = <<BTCUSDT>>
    /\ symbols = <<ETHUSDT, BTCUSDT>>
    /\ timerInterval # refresh_interval * 1000
    /\ ~closed

\* C26 as claimed: while an aggregation pass is in flight the refresh timer
\* is not active, under any interleaving of finished signals, F5 requests and
\* settings changes.
C26_TimerInactiveInFlight == InFlight # {} => ~timerActive

\* C27: periodic refresh never stalls.  After run() of a pass has ended, with
\* a result or an error, the refresh timer is eventually active again unless
\* the overlay is closed; a failed start leaves the timer active at once; and
\* an active timer runs with the current refresh_interval.
C27_TimerRestarts ==
    /\ \A p \in Threads : (tstate[p] = "returned") ~> (timerActive \/ closed)
    /\ [](timerActive => timerInterval = refresh_interval * 1000)
    /\ [][last' = "failed" => timerActive']_vars

\* C27 witness: pass 1 raised, its finished signal has been taken, and the
\* timer runs with an interval that was changed while the pass was running.
C27_Witness ==
    /\ tstate[1] = "finished"
    /\ t_fetch[1] = "raised"
    /\ events = <<>>
    /\ timerActive
    /\ timerInterval = 5000
    /\ refresh_interval = 5
    /\ created = 1
    /\ ~closed

\* C28 as claimed: after closeEvent has run no pass is in flight, the refresh
\* timer stays inactive and no new pass is started, also when closeEvent ran
\* while a pass was in flight and its finished signal is delivered afterwards.
C28_ClosedStaysIdle ==
    /\ [](closed => (InFlight = {} /\ ~timerActive))
    /\ [][closed => created' = created]_vars

\* The thread objects that were started.
Started == {p \in Threads : tstate[p] \notin {"none", "unstarted"}}

\* No further thread can be created and the last one failed to start.
StartsExhausted == created = MaxPasses /\ tstate[MaxPasses] = "unstarted"

BuiltinOr(key, d) == IF key \in DOMAIN default_config THEN default_config[key] ELSE d

\* What get(key, d) is to return: the stored value, else the built-in
\* default, else d.
Expected(key, d) ==
    IF key \in DOMAIN cfg_heap[config] THEN cfg_heap[config][key] ELSE BuiltinOr(key, d)

\* C30: after any sequence of set, update and reset calls, get(key, d)
\* returns the stored value when the key is stored, otherwise the built-in
\* default when the key has one, otherwise d; right after reset() every key
\* returns its original built-in default; and no set or update alters the
\* built-in defaults.
C30_LookupAndReset ==
    /\ cfg_last.op = "get" => cfg_last.result = Expected(cfg_last.key, cfg_last.d)
    /\ \A key \in Keys, d \in CfgDefaults : get(key, d) = Expected(key, d)
    /\ cfg_last.op = "reset" =>
          \A key \in Keys, d \in CfgDefaults : get(key, d) = BuiltinOr(key, d)
    /\ cfg_heap[DefaultObj] = default_config

\* reset() right after every key was written by set or update: the keys
\* with a built-in default return it, the other returns d.
C30_Witness ==
    /\ cfg_last.op = "reset"
    /\ cfg_written = Keys
    /\ get("refresh_interval", 7) = 2
    /\ get("font_size", 7) = 12
    /\ get("display_mode", 7) = 7

====
